---- MODULE Spec2Model ----
(***************************************************************************)
(* Model of the PLY standardisation pipeline of EasyEnv                    *)
(* (src/EasyEnv/sharp_wrapper.py): standardize_ply reads a source PLY,     *)
(* filters the rows with a non-finite required value, permutes the         *)
(* rotation columns WXYZ -> XYZW, writes the standard PLY and then the     *)
(* 32-byte-per-point .splat file through save_as_splat.                    *)
(*                                                                         *)
(* Further sections model the attribute check and colour loop of the two  *)
(* import operators, predict_gaussians_from_image and                      *)
(* standardize_ply_format, the environment status cache, the Install       *)
(* Environment operator with its thread, and download_file.                *)
(*                                                                         *)
(* A float32 value is a record [k, v]: k = "fin" with v the value in       *)
(* thousandths (1.0 is 1000), or k = "nan", or k = "inf" with v the sign.  *)
(* A byte written to the .splat file is [k |-> "u8", v |-> 0..255].        *)
(***************************************************************************)
EXTENDS Integers, Sequences, FiniteSets

VARIABLES
    inputFile,      \* the PLY file at input_path
    pc,             \* position inside standardize_ply
    data,           \* plydata['vertex'].data
    num_points,     \* len(data)
    filtered_data,  \* data[valid_mask]
    new_data,       \* the standardized structured array
    plyOut,         \* the file at output_path
    splatOut,       \* the file at output_path.replace('.ply', '.splat')
    splatRow,       \* index of the row save_as_splat writes next
    result,         \* the tuple standardize_ply returns
    err,            \* the exception standardize_ply raised, "" if none
    inputDamage     \* what is wrong with the bytes at input_path, "" if nothing

\* the operators that validate an imported mesh and derive its colours
VARIABLES
    site,           \* which operator runs: "generate" or "import"
    meshAttrs,      \* the names in mesh.attributes
    points,         \* the attribute values of the mesh, one row per point
    opc,            \* position inside execute
    missing_attrs,  \* the list execute collects
    report,         \* the names in the error execute reported
    opResult,       \* what execute returned, "" while it runs
    color_data      \* the flat R, G, B, A list, in millionths

\* predict_gaussians_from_image and standardize_ply_format
VARIABLES
    entry,          \* the function the caller invoked
    wpc,            \* position inside it
    pythonExists,   \* MLSHARP_PYTHON.exists()
    imageExists,    \* image_path.exists()
    mkdirCalled,    \* output_path.mkdir has run
    started,        \* the subprocesses started, in order
    plyAtPath,      \* the file at ply_path (output_ply)
    tempFile,       \* the file at temp_output
    exits,          \* how each started subprocess ended, in order
    wret,           \* what the invoked function returned, "" while it runs
    wraised         \* the exception it raised, "" if none

\* the cache of the environment status (get_cached_environment_status)
VARIABLES
    env_status_cache,       \* _env_status_cache
    env_status_cache_time,  \* _env_status_cache_time, in seconds
    env_fully_installed,    \* _env_fully_installed
    now,                    \* time.time(), in seconds
    disk,                   \* what check_environment_status would find
    call                    \* the last call of the cache's two functions

\* the Install Environment operator, its thread and
\* install_environment_windows
VARIABLES
    ipc,             \* the operator: "idle", "modal" (handler added), "ended"
    opReturn,        \* what execute or modal last returned to Blender
    reports,         \* the self.report calls, in order
    timer,           \* self._timer is registered with the window manager
    tpc,             \* position of install_thread, "none" before it exists
    is_running,      \* self._is_running
    success,         \* self._success
    error_message,   \* self._error_message, "" for None
    status_message,  \* self._status_message
    ipos,            \* position inside install_environment_windows
    status,          \* the status it sampled
    stepsRun,        \* the installation steps it started, in order
    callbacks,       \* the messages it gave to progress_callback, in order
    iret             \* what it returned, "" if nothing

\* download_file
VARIABLES
    dpc,             \* position inside download_file
    requestsOk,      \* 'import requests' succeeds
    dest,            \* the file at destination
    remaining,       \* the chunks the server has still to send
    dret,            \* what download_file returned, "" if nothing
    draised          \* the exception it raised, "" if none

pipeVars == <<inputFile, pc, data, num_points, filtered_data, new_data,
              plyOut, splatOut, splatRow, result, err, inputDamage>>

opVars == <<site, meshAttrs, points, opc, missing_attrs, report, opResult,
            color_data>>

sharpVars == <<entry, wpc, pythonExists, imageExists, mkdirCalled, started,
               plyAtPath, tempFile, exits, wret, wraised>>

cacheVars == <<env_status_cache, env_status_cache_time, env_fully_installed,
               now, disk, call>>

installVars == <<ipc, opReturn, reports, timer, tpc, is_running, success,
                 error_message, status_message, ipos, status, stepsRun,
                 callbacks, iret>>

dlVars == <<dpc, requestsOk, dest, remaining, dret, draised>>

envVars == <<cacheVars, installVars, dlVars>>

vars == <<pipeVars, opVars, sharpVars, envVars>>

-----------------------------------------------------------------------------
(* Bounds *)

MaxRows == 2

-----------------------------------------------------------------------------
(* float32 values *)

Fin(n) == [k |-> "fin", v |-> n]
NaN == [k |-> "nan", v |-> 0]
PosInf == [k |-> "inf", v |-> 1]
NegInf == [k |-> "inf", v |-> -1]
U8(b) == [k |-> "u8", v |-> b]

\* np.isnan in place of np.isfinite: an infinity passes
isfinite_notnan(f) == f.k # "nan"

\* np.isfinite
isfinite(f) == f.k = "fin"

\* np.clip(v, lo, hi) on integers
clip(v, lo, hi) == IF v < lo THEN lo ELSE IF v > hi THEN hi ELSE v

\* np.exp on a float32, in thousandths.  float32 overflows to inf
\* above 88.72 and underflows to 0 below -103.97; in between the values the
\* model uses are tabulated; a value below one thousandth is 0.
exp(f) ==
    IF f.k = "nan" THEN NaN
    ELSE IF f.k = "inf" THEN (IF f.v > 0 THEN PosInf ELSE Fin(0))
    ELSE IF f.v >= 88723 THEN PosInf
    ELSE IF f.v <= -100000 THEN Fin(0)
    ELSE CASE f.v = -20000 -> Fin(0)
           [] f.v = -3000 -> Fin(50)
           [] f.v = -2000 -> Fin(135)
           [] f.v = -1000 -> Fin(368)
           [] f.v = 0     -> Fin(1000)
           [] f.v = 1000  -> Fin(2718)
           [] f.v = 2000  -> Fin(7389)
           [] f.v = 3000  -> Fin(20086)

\* unary minus on a finite float32
neg(f) == Fin(0 - f.v)

\* 1 + exp(f) rounds to exactly 1 in a float of the given significand
\* width: exp(f) is below 2^-24 (float32) or 2^-53 (float64)
Absorbed(f, bits) ==
    IF bits = 24 THEN f.v <= -16636 ELSE f.v <= -36737

-----------------------------------------------------------------------------
(* Column names *)

\* required, in the order of the list
required ==
    <<"x", "y", "z", "f_dc_0", "f_dc_1", "f_dc_2", "opacity",
      "scale_0", "scale_1", "scale_2", "rot_0", "rot_1", "rot_2", "rot_3">>

\* dtype_standard: the names of the standard columns, in order
dtype_standard ==
    <<"x", "y", "z", "scale_0", "scale_1", "scale_2",
      "rot_0", "rot_1", "rot_2", "rot_3",
      "f_dc_0", "f_dc_1", "f_dc_2", "opacity">>

\* the columns copied under their own name
copied ==
    <<"x", "y", "z", "scale_0", "scale_1", "scale_2",
      "f_dc_0", "f_dc_1", "f_dc_2", "opacity">>

Range(s) == {s[i] : i \in 1..Len(s)}

-----------------------------------------------------------------------------
(* standardize_ply: the row filter and the standard columns *)

\* valid_mask: True at i iff every required column is finite at i
valid_mask(rows) ==
    [i \in 1..Len(rows) |->
        \A j \in 1..Len(required) : isfinite(rows[i][required[j]])]

\* data[valid_mask]: boolean-mask indexing keeps the True rows in order
RECURSIVE MaskSelect(_, _, _)
MaskSelect(rows, mask, i) ==
    IF i > Len(rows) THEN <<>>
    ELSE IF mask[i] THEN <<rows[i]>> \o MaskSelect(rows, mask, i + 1)
         ELSE MaskSelect(rows, mask, i + 1)

\* the permutation applied the wrong way round (XYZW -> WXYZ)
SourceColumn_reversed(p) ==
    CASE p = "rot_0" -> "rot_3"
      [] p = "rot_1" -> "rot_0"
      [] p = "rot_2" -> "rot_1"
      [] p = "rot_3" -> "rot_2"
      [] OTHER -> p

\* the rotation columns copied under their own name
SourceColumn_identity(p) == p

\* the filtered column a standard column is assigned from
SourceColumn(p) ==
    CASE p = "rot_0" -> "rot_1"
      [] p = "rot_1" -> "rot_2"
      [] p = "rot_2" -> "rot_3"
      [] p = "rot_3" -> "rot_0"
      [] OTHER -> p

\* the standard row with the scale decoded to linear scale
StandardRow_decoded(fr) ==
    [p \in Range(dtype_standard) |->
        IF p \in {"scale_0", "scale_1", "scale_2"}
        THEN exp(fr[p]) ELSE fr[SourceColumn(p)]]

\* one row of new_data, built from the same row of filtered_data
StandardRow(fr) == [p \in Range(dtype_standard) |-> fr[SourceColumn(p)]]

\* the point count returned in place of the dropped count
ReturnValue_total(n, nd) == <<Len(nd), n>>

\* the tuple standardize_ply returns
ReturnValue(n, nd) == <<Len(nd), n - Len(nd)>>

-----------------------------------------------------------------------------
(* save_as_splat: one 32-byte record per row *)

\* SH_C0 = 0.28209479177387814, in thousandths
SH_C0 == 282

\* rounding to nearest in place of the truncation of the cast
astype_uint8_rounding(n, den) == (2 * n + den) \div (2 * den)

\* .astype(np.uint8) of a non-negative value given in units of 1/den
astype_uint8(n, den) == n \div den

\* np.clip((0.5 + SH_C0 * f) * 255, 0, 255).astype(np.uint8)
ColorByte(f) ==
    astype_uint8(clip((500 * 1000 + SH_C0 * f.v) * 255, 0, 255 * 1000000),
                 1000000)

\* np.clip((1 / (1 + np.exp(-opacity))) * 255, 0, 255).astype(np.uint8)
AlphaByte(o) ==
    LET e == exp(neg(o))
    IN  IF e.k = "inf" THEN astype_uint8(0, 1000)
        ELSE IF e.v = 0 /\ ~Absorbed(neg(o), 24)
        THEN \* the float32 sigmoid is below 1
             astype_uint8(255 * 1000 - 1, 1000)
        ELSE astype_uint8(clip((255 * 1000 * 1000) \div (1000 + e.v),
                               0, 255 * 1000), 1000)

\* the preview colour of a point, in millionths:
\* R = max(0.0, min(1.0, f_dc * SH_0 + 0.5))
PreviewColor(f) == clip(f.v * SH_C0 + 500 * 1000, 0, 1000000)

\* A = max(0.0, min(1.0, 1 / (1 + np.exp(-opacity)))) on float64, in
\* millionths rounded down
PreviewAlpha(o) ==
    LET e == exp(neg(o))
    IN  IF e.k = "inf" THEN 0
        ELSE IF e.v = 0 /\ ~Absorbed(neg(o), 53)
        THEN \* the float64 sigmoid is below 1
             1000000 - 1
        ELSE clip((1000 * 1000000) \div (1000 + e.v), 0, 1000000)

\* q = np.array([row['rot_1'], row['rot_2'], row['rot_3'], row['rot_0']])
RotationInput(row) ==
    <<row["rot_1"], row["rot_2"], row["rot_3"], row["rot_0"]>>

\* integer square root (Newton), for np.linalg.norm
RECURSIVE Newton(_, _)
Newton(s, r) ==
    LET n == (r + s \div r) \div 2
    IN  IF n >= r THEN r ELSE Newton(s, n)
ISqrt(s) == IF s = 0 THEN 0 ELSE Newton(s, s)

\* mag = np.linalg.norm(q), in thousandths
norm(q) ==
    ISqrt(q[1].v * q[1].v + q[2].v * q[2].v + q[3].v * q[3].v + q[4].v * q[4].v)

\* division rounded to nearest, b > 0
RDiv(a, b) == (2 * a + b) \div (2 * b)

\* the division without its guard: 0 / 0 is NaN, which the cast turns to 0
Normalized_unguarded(q) ==
    LET mag == norm(q)
    IN  IF mag > 0 THEN [i \in 1..4 |-> RDiv(q[i].v * 1000, mag)]
        ELSE [i \in 1..4 |-> -128 * 1000]

\* if mag > 0: q /= mag
Normalized(q) ==
    LET mag == norm(q)
    IN  IF mag > 0 THEN [i \in 1..4 |-> RDiv(q[i].v * 1000, mag)]
        ELSE [i \in 1..4 |-> q[i].v]

\* mag = np.linalg.norm(q); if mag > 0: q /= mag;
\* (q * 128 + 128).clip(0, 255).astype(np.uint8)
QuantizeRotation(q) ==
    LET qn == Normalized(q)
    IN  [i \in 1..4 |->
            astype_uint8(clip(qn[i] * 128 + 128 * 1000, 0, 255 * 1000), 1000)]

\* rot_bytes, for a row of the array save_as_splat is given
rot_bytes(row) == QuantizeRotation(RotationInput(row))

\* everything one iteration of the loop writes, in order
SplatRecord(row) ==
    <<row["x"], row["y"], row["z"],
      exp(row["scale_0"]), exp(row["scale_1"]), exp(row["scale_2"]),
      U8(ColorByte(row["f_dc_0"])), U8(ColorByte(row["f_dc_1"])),
      U8(ColorByte(row["f_dc_2"])), U8(AlphaByte(row["opacity"])),
      U8(rot_bytes(row)[1]), U8(rot_bytes(row)[2]),
      U8(rot_bytes(row)[3]), U8(rot_bytes(row)[4])>>

\* a float written as float64
ByteSize_float64(w) == IF w.k = "u8" THEN 1 ELSE 8

\* bytes a written value occupies: tobytes() of a float32 or of a uint8
ByteSize(w) == IF w.k = "u8" THEN 1 ELSE 4

RECURSIVE FileLength(_)
FileLength(ws) ==
    IF ws = <<>> THEN 0 ELSE ByteSize(Head(ws)) + FileLength(Tail(ws))

-----------------------------------------------------------------------------
(* Source files *)

\* property orders a source vertex element may declare
SrcPlain ==
    <<"x", "y", "z", "f_dc_0", "f_dc_1", "f_dc_2", "opacity",
      "scale_0", "scale_1", "scale_2", "rot_0", "rot_1", "rot_2", "rot_3">>
SrcWithRest ==
    <<"x", "y", "z", "f_dc_0", "f_dc_1", "f_dc_2", "f_rest_0", "opacity",
      "scale_0", "scale_1", "scale_2", "rot_0", "rot_1", "rot_2", "rot_3">>
SrcIncomplete ==
    <<"x", "y", "z", "f_dc_0", "f_dc_1", "f_dc_2",
      "scale_0", "scale_1", "scale_2", "rot_0", "rot_1", "rot_3">>

AllSrcProps == Range(SrcWithRest)

MkRow(x, y, z, d0, d1, d2, fr, op, s0, s1, s2, r0, r1, r2, r3) ==
    [p \in AllSrcProps |->
        CASE p = "x" -> Fin(x) [] p = "y" -> Fin(y) [] p = "z" -> Fin(z)
          [] p = "f_dc_0" -> Fin(d0) [] p = "f_dc_1" -> Fin(d1)
          [] p = "f_dc_2" -> Fin(d2) [] p = "f_rest_0" -> Fin(fr)
          [] p = "opacity" -> Fin(op)
          [] p = "scale_0" -> Fin(s0) [] p = "scale_1" -> Fin(s1)
          [] p = "scale_2" -> Fin(s2)
          [] p = "rot_0" -> Fin(r0) [] p = "rot_1" -> Fin(r1)
          [] p = "rot_2" -> Fin(r2) [] p = "rot_3" -> Fin(r3)]

\* x=1, y=2, z=3, zero scale, colour and opacity, identity rotation (w first)
RowUnit == MkRow(1000, 2000, 3000, 0, 0, 0, 0, 0, 0, 0, 0, 1000, 0, 0, 0)
\* every column different
RowMixed ==
    MkRow(-1500, 250, 4000, 1000, -1000, 3000, 500, 2000,
          -2000, 1000, 2000, 1000, 2000, 3000, -4000)
\* zero quaternion
RowZeroQ ==
    MkRow(0, -1000, 500, -3000, 0, 2000, -500, -2000,
          -1000, 0, 3000, 0, 0, 0, 0)
\* values at which float32 exp overflows
RowHuge ==
    MkRow(4000, 4000, -4000, 2000, 2000, -2000, 0, -100000,
          100000, -100000, 0, 0, 0, 0, 2000)
RowHuge2 ==
    MkRow(250, 500, 750, -1000, 3000, 1000, 0, 100000,
          1000, 2000, -3000, -1000, -1000, 1000, 1000)

FiniteRows == {RowUnit, RowMixed, RowZeroQ, RowHuge, RowHuge2}

\* an opaque point: opacity 20
RowOpaque ==
    MkRow(1000, 2000, 3000, 0, 0, 0, 0, 20000, 0, 0, 0, 1000, 0, 0, 0)

\* the rows of the meshes the operators are given
PreviewRows == FiniteRows \cup {RowOpaque}

Override(row, c, f) == [row EXCEPT ![c] = f]

\* rows of a file with the required columns only: a NaN in each column in
\* turn, and infinities of both signs
PlainRows ==
    {RowUnit, RowMixed, RowZeroQ}
    \cup {Override(RowMixed, c, NaN) : c \in Range(required)}
    \cup {Override(RowUnit, "x", PosInf), Override(RowZeroQ, "rot_3", NegInf)}

\* rows of a file that also has f_rest_0
RestRows ==
    FiniteRows
    \cup {Override(RowMixed, "f_rest_0", NaN),
          Override(RowUnit, "opacity", NegInf),
          Override(RowHuge, "scale_1", PosInf)}

\* rows of a file that lacks opacity and rot_2
IncompleteRows == {RowUnit, RowMixed, Override(RowMixed, "x", NaN)}

RowSeqs(choices) == UNION {[1..n -> choices] : n \in 0..MaxRows}

\* an element of a PLY file: its name, its property order, its rows
Element(name, props, rows) ==
    [name |-> name, props |-> props,
     rows |-> [i \in 1..Len(rows) |-> [p \in Range(props) |-> rows[i][p]]]]

\* the camera elements ML-Sharp adds after the vertex element
CameraElements ==
    <<[name |-> "extrinsic", props |-> <<"extrinsic">>,
       rows |-> <<[p \in {"extrinsic"} |-> Fin(1000)]>>],
      [name |-> "intrinsic", props |-> <<"intrinsic">>,
       rows |-> <<[p \in {"intrinsic"} |-> Fin(500)]>>]>>

PlyFile(elements) ==
    [exists |-> TRUE, format |-> "binary_little_endian", elements |-> elements]
NoFile == [exists |-> FALSE, format |-> "", elements |-> <<>>]

InputFiles ==
    {PlyFile(<<Element("vertex", SrcPlain, rs)>>) : rs \in RowSeqs(PlainRows)}
    \cup {PlyFile(<<Element("vertex", SrcWithRest, rs)>> \o CameraElements) :
            rs \in RowSeqs(RestRows)}
    \cup {PlyFile(<<Element("vertex", SrcIncomplete, rs)>>) :
            rs \in RowSeqs(IncompleteRows)}
    \cup {PlyFile(CameraElements)}

-----------------------------------------------------------------------------
(* PlyData *)

\* 'vertex' in plydata
HasElement(file, name) ==
    \E i \in 1..Len(file.elements) : file.elements[i].name = name

\* plydata['vertex']
GetElement(file, name) ==
    file.elements[CHOOSE i \in 1..Len(file.elements) :
                      file.elements[i].name = name]

\* the vertex element replaced inside the elements that were read
StandardPly_keepElements(nd) ==
    [exists |-> TRUE, format |-> "binary_little_endian",
     elements |-> <<[name |-> "vertex", props |-> dtype_standard, rows |-> nd]>>
                  \o SelectSeq(inputFile.elements,
                               LAMBDA e : e.name # "vertex")]

\* the same element written with text=True
StandardPly_text(nd) ==
    [exists |-> TRUE, format |-> "ascii",
     elements |-> <<[name |-> "vertex", props |-> dtype_standard, rows |-> nd]>>]

\* PlyData([PlyElement.describe(new_data, 'vertex')], text=False)
StandardPly(nd) ==
    PlyFile(<<[name |-> "vertex", props |-> dtype_standard, rows |-> nd]>>)

NoSplat == [exists |-> FALSE, written |-> <<>>]
NoData == [name |-> "", props |-> <<>>, rows |-> <<>>]

-----------------------------------------------------------------------------
(* The point file as bytes: a text header and a body of little-endian
   IEEE-754 float32 fields, 4 bytes each, no padding. *)

\* floor(log2(m)) for m >= 1
Log2(m) == CHOOSE l \in 0..30 : 2^l <= m /\ m < 2^(l + 1)

\* the four bytes of a float32, least significant first; the finite values
\* are multiples of 1/8, which float32 holds exactly
F32Bytes(f) ==
    CASE f.k = "nan" -> <<0, 0, 192, 127>>
      [] f.k = "inf" -> IF f.v > 0 THEN <<0, 0, 128, 127>>
                                   ELSE <<0, 0, 128, 255>>
      [] f.k = "fin" /\ f.v = 0 -> <<0, 0, 0, 0>>
      [] OTHER ->
            LET m == (IF f.v < 0 THEN -f.v ELSE f.v) \div 125
                l == Log2(m)
                e == l - 3 + 127
                mant == m * 2^(23 - l) - 2^23
                s == IF f.v < 0 THEN 1 ELSE 0
            IN  <<mant % 256, (mant \div 256) % 256,
                  (e % 2) * 128 + mant \div 65536, s * 128 + e \div 2>>

\* the float32 that four little-endian bytes hold
F32Value(b) ==
    LET s == b[4] \div 128
        e == (b[4] % 128) * 2 + b[3] \div 128
        mant == (b[3] % 128) * 65536 + b[2] * 256 + b[1]
        sig == 2^23 + mant
        shift == 150 - e
        eighths == IF shift - 3 > 23 THEN 0
                   ELSE IF shift >= 3 THEN sig \div 2^(shift - 3)
                   ELSE sig * 2^(3 - shift)
    IN  IF e = 255
        THEN IF mant = 0 THEN (IF s = 1 THEN NegInf ELSE PosInf) ELSE NaN
        ELSE IF e = 0 /\ mant = 0 THEN Fin(0)
        ELSE Fin((IF s = 1 THEN -1 ELSE 1) * eighths * 125)

RECURSIVE Flatten(_, _)
Flatten(seqs, i) ==
    IF i > Len(seqs) THEN <<>> ELSE seqs[i] \o Flatten(seqs, i + 1)

HeaderLine(kw, a, n) == [kw |-> kw, a |-> a, n |-> n]

\* element <name> <N> followed by one 'property float <name>' per column
ElementHeader(el) ==
    <<HeaderLine("element", el.name, Len(el.rows))>>
    \o [j \in 1..Len(el.props) |-> HeaderLine("property", el.props[j], 4)]

\* one field of the body: four bytes in a binary file, one token in a text
\* file
Field(format, f) ==
    IF format = "binary_little_endian" THEN F32Bytes(f) ELSE <<f>>

\* the records of an element, fields in the declared property order
ElementBody(format, el) ==
    Flatten([i \in 1..Len(el.rows) |->
                Flatten([j \in 1..Len(el.props) |->
                            Field(format, el.rows[i][el.props[j]])], 1)], 1)

\* PlyData.write
PlyEncode(file) ==
    [header |-> <<HeaderLine("ply", "", 0),
                  HeaderLine("format", file.format, 1)>>
                \o Flatten([k \in 1..Len(file.elements) |->
                               ElementHeader(file.elements[k])], 1)
                \o <<HeaderLine("end_header", "", 0)>>,
     body |-> Flatten([k \in 1..Len(file.elements) |->
                          ElementBody(file.format, file.elements[k])], 1)]

\* the element declarations of a header: name, property order, count
RECURSIVE ParseHeader(_, _, _)
ParseHeader(lines, i, els) ==
    IF i > Len(lines) \/ lines[i].kw = "end_header" THEN els
    ELSE IF lines[i].kw = "element"
    THEN ParseHeader(lines, i + 1,
             Append(els, [name |-> lines[i].a, props |-> <<>>,
                          count |-> lines[i].n]))
    ELSE IF lines[i].kw = "property" /\ Len(els) > 0
    THEN ParseHeader(lines, i + 1,
             [els EXCEPT ![Len(els)].props = Append(@, lines[i].a)])
    ELSE ParseHeader(lines, i + 1, els)

FieldWidth(format) == IF format = "binary_little_endian" THEN 4 ELSE 1

IndexOf(props, p) == CHOOSE j \in 1..Len(props) : props[j] = p

\* the count records of an element, read from offset off of the body
DecodeRows(format, body, off, props, count) ==
    LET w == FieldWidth(format)
        at(i, p) == off + ((i - 1) * Len(props) + IndexOf(props, p) - 1) * w
    IN  [i \in 1..count |->
            [p \in Range(props) |->
                IF w = 4 THEN F32Value(SubSeq(body, at(i, p) + 1, at(i, p) + 4))
                ELSE body[at(i, p) + 1]]]

RECURSIVE DecodeElements(_, _, _, _, _)
DecodeElements(format, body, els, k, off) ==
    IF k > Len(els) THEN <<>>
    ELSE <<[name |-> els[k].name, props |-> els[k].props,
            rows |-> DecodeRows(format, body, off, els[k].props,
                               els[k].count)]>>
         \o DecodeElements(format, body, els, k + 1,
                off + els[k].count * Len(els[k].props) * FieldWidth(format))

RECURSIVE BodyLength(_, _, _)
BodyLength(format, els, k) ==
    IF k > Len(els) THEN 0
    ELSE els[k].count * Len(els[k].props) * FieldWidth(format)
         + BodyLength(format, els, k + 1)

\* PlyData.read: nothing is returned for a header without 'ply', 'format'
\* and 'end_header' or a body whose length is not the declared one
PlyDecode(bytes) ==
    LET h == bytes.header
    IN  IF \/ Len(h) < 3
           \/ h[1].kw # "ply"
           \/ h[2].kw # "format"
           \/ h[Len(h)].kw # "end_header"
        THEN NoFile
        ELSE \* the declarations are parsed once
             LET parsed == {ParseHeader(h, 3, <<>>)}
             IN  IF \E els \in parsed :
                       Len(bytes.body) # BodyLength(h[2].a, els, 1)
                 THEN NoFile
                 ELSE [exists |-> TRUE, format |-> h[2].a,
                       elements |->
                          CHOOSE d \in {DecodeElements(h[2].a, bytes.body,
                                                       els, 1, 0) :
                                            els \in parsed} : TRUE]

\* PlyData.read returns only for bytes whose header parses and whose body
\* has the length the header declares
Parses(damage) == damage = ""

\* a status dict; set is FALSE for None
Status(p, k, c) ==
    [set |-> TRUE, python_installed |-> p, packages_installed |-> k,
     checkpoint_exists |-> c]
NoStatus ==
    [set |-> FALSE, python_installed |-> FALSE, packages_installed |-> FALSE,
     checkpoint_exists |-> FALSE]

NoCall == [op |-> "", n |-> 0, checked |-> FALSE, raised |-> FALSE,
           hadCache |-> FALSE, ret |-> NoStatus]

\* the module as loaded: nothing cached, no call made
CacheIdle ==
    /\ env_status_cache = NoStatus
    /\ env_status_cache_time = 0
    /\ env_fully_installed = FALSE
    /\ now = 0
    /\ disk = Status(FALSE, FALSE, FALSE)
    /\ call = NoCall

\* the operator has not been invoked; the class attributes have their
\* defaults
InstallIdle ==
    /\ ipc = "idle"
    /\ opReturn = ""
    /\ reports = <<>>
    /\ timer = FALSE
    /\ tpc = "none"
    /\ is_running = FALSE
    /\ success = FALSE
    /\ error_message = ""
    /\ status_message = "Starting installation..."
    /\ ipos = "idle"
    /\ status = NoStatus
    /\ stepsRun = <<>>
    /\ callbacks = <<>>
    /\ iret = ""

NoDest == [exists |-> FALSE, chunks |-> 0]

\* download_file is not running
DownloadIdle ==
    /\ dpc = "idle"
    /\ requestsOk = FALSE
    /\ dest = NoDest
    /\ remaining = 0
    /\ dret = ""
    /\ draised = ""

EnvIdle == CacheIdle /\ InstallIdle /\ DownloadIdle

\* execute of neither operator is running
OperatorIdle ==
    /\ site = ""
    /\ meshAttrs = {}
    /\ points = <<>>
    /\ opc = "idle"
    /\ missing_attrs = <<>>
    /\ report = <<>>
    /\ opResult = ""
    /\ color_data = <<>>

\* neither wrapper function is running
SharpIdle ==
    /\ entry = ""
    /\ wpc = "idle"
    /\ pythonExists = FALSE
    /\ imageExists = FALSE
    /\ mkdirCalled = FALSE
    /\ started = <<>>
    /\ plyAtPath = NoFile
    /\ tempFile = NoFile
    /\ exits = <<>>
    /\ wret = ""
    /\ wraised = ""

\* the ways the bytes of a file can be damaged: a header that does not
\* parse, or a body shorter than the header declares
Damages(file) ==
    {"", "header"}
    \cup {d \in {"body"} : \E i \in 1..Len(file.elements) :
                              Len(file.elements[i].rows) > 0}

-----------------------------------------------------------------------------
(* standardize_ply, step by step *)

Init ==
    /\ inputFile \in InputFiles
    /\ pc = "read"
    /\ data = NoData
    /\ num_points = 0
    /\ filtered_data = <<>>
    /\ new_data = <<>>
    /\ plyOut = NoFile
    /\ splatOut = NoSplat
    /\ splatRow = 0
    /\ result = <<>>
    /\ err = ""
    /\ inputDamage \in Damages(inputFile)
    /\ OperatorIdle
    /\ SharpIdle
    /\ EnvIdle

\* the first element taken as the vertex data without looking for 'vertex'
ReadPly_unchecked ==
    /\ pc = "read"
    /\ IF ~Parses(inputDamage)
       THEN /\ pc' = "raised"
            /\ err' = "PlyParseError"
            /\ UNCHANGED <<data, num_points>>
       ELSE /\ data' = inputFile.elements[1]
            /\ num_points' = Len(inputFile.elements[1].rows)
            /\ pc' = "filter"
            /\ err' = err
    /\ UNCHANGED <<inputFile, filtered_data, new_data, plyOut, splatOut,
                   splatRow, result>>
    /\ UNCHANGED <<inputDamage, opVars, sharpVars, envVars>>

\* plydata = PlyData.read(input_path), which raises on bytes it cannot
\* parse; if 'vertex' not in plydata: raise ValueError;
\* data = plydata['vertex'].data
ReadPly ==
    /\ pc = "read"
    /\ IF ~Parses(inputDamage)
       THEN /\ pc' = "raised"
            /\ err' = "PlyParseError"
            /\ UNCHANGED <<data, num_points>>
       ELSE IF HasElement(inputFile, "vertex")
       THEN /\ data' = GetElement(inputFile, "vertex")
            /\ num_points' = Len(GetElement(inputFile, "vertex").rows)
            /\ pc' = "filter"
            /\ err' = err
       ELSE /\ pc' = "raised"
            /\ err' = "ValueError"
            /\ UNCHANGED <<data, num_points>>
    /\ UNCHANGED <<inputFile, filtered_data, new_data, plyOut, splatOut,
                   splatRow, result>>
    /\ UNCHANGED <<inputDamage, opVars, sharpVars, envVars>>

\* a missing column answered by writing an empty standard file
FilterRows_partial ==
    /\ pc = "filter"
    /\ IF Range(required) \subseteq Range(data.props)
       THEN /\ filtered_data' = MaskSelect(data.rows, valid_mask(data.rows), 1)
            /\ pc' = "build"
            /\ err' = err
            /\ UNCHANGED plyOut
       ELSE /\ pc' = "raised"
            /\ err' = "ValueError"
            /\ plyOut' = StandardPly(<<>>)
            /\ UNCHANGED filtered_data
    /\ UNCHANGED <<inputFile, data, num_points, new_data, splatOut,
                   splatRow, result>>
    /\ UNCHANGED <<inputDamage, opVars, sharpVars, envVars>>

\* the valid_mask loop and filtered_data = data[valid_mask];
\* data[prop] raises ValueError for a field the array does not have
FilterRows ==
    /\ pc = "filter"
    /\ IF Range(required) \subseteq Range(data.props)
       THEN /\ filtered_data' = MaskSelect(data.rows, valid_mask(data.rows), 1)
            /\ pc' = "build"
            /\ err' = err
       ELSE /\ pc' = "raised"
            /\ err' = "ValueError"
            /\ UNCHANGED filtered_data
    /\ UNCHANGED <<inputFile, data, num_points, new_data, plyOut, splatOut,
                   splatRow, result>>
    /\ UNCHANGED <<inputDamage, opVars, sharpVars, envVars>>

\* the rotation columns shifted in place in the array that was read
BuildStandard_inplace ==
    /\ pc = "build"
    /\ new_data' = [i \in 1..Len(filtered_data) |-> StandardRow(filtered_data[i])]
    /\ data' = [data EXCEPT !.rows =
                  [i \in 1..Len(data.rows) |->
                      [p \in DOMAIN data.rows[i] |->
                          data.rows[i][SourceColumn(p)]]]]
    /\ pc' = "write_ply"
    /\ UNCHANGED <<inputFile, num_points, filtered_data, plyOut,
                   splatOut, splatRow, result, err>>
    /\ UNCHANGED <<inputDamage, opVars, sharpVars, envVars>>

\* new_data = np.empty(...); the column assignments
BuildStandard ==
    /\ pc = "build"
    /\ new_data' = [i \in 1..Len(filtered_data) |-> StandardRow(filtered_data[i])]
    /\ pc' = "write_ply"
    /\ UNCHANGED <<inputFile, data, num_points, filtered_data, plyOut,
                   splatOut, splatRow, result, err>>
    /\ UNCHANGED <<inputDamage, opVars, sharpVars, envVars>>

\* PlyData([vertex_element], text=False).write(output_path)
WritePly ==
    /\ pc = "write_ply"
    /\ plyOut' = StandardPly(new_data)
    /\ pc' = "splat_open"
    /\ UNCHANGED <<inputFile, data, num_points, filtered_data, new_data,
                   splatOut, splatRow, result, err>>
    /\ UNCHANGED <<inputDamage, opVars, sharpVars, envVars>>

\* save_as_splat: open(output_path, 'wb')
SplatOpen ==
    /\ pc = "splat_open"
    /\ splatOut' = [exists |-> TRUE, written |-> <<>>]
    /\ splatRow' = 1
    /\ pc' = "splat_rows"
    /\ UNCHANGED <<inputFile, data, num_points, filtered_data, new_data,
                   plyOut, result, err>>
    /\ UNCHANGED <<inputDamage, opVars, sharpVars, envVars>>

\* save_as_splat: one iteration of "for row in data"
SplatWriteRow ==
    /\ pc = "splat_rows"
    /\ splatRow <= Len(new_data)
    /\ splatOut' = [splatOut EXCEPT
                      !.written = @ \o SplatRecord(new_data[splatRow])]
    /\ splatRow' = splatRow + 1
    /\ UNCHANGED <<inputFile, pc, data, num_points, filtered_data, new_data,
                   plyOut, result, err>>
    /\ UNCHANGED <<inputDamage, opVars, sharpVars, envVars>>

\* the loop ends, the file is closed, standardize_ply returns
Return ==
    /\ pc = "splat_rows"
    /\ splatRow > Len(new_data)
    /\ result' = ReturnValue(num_points, new_data)
    /\ pc' = "done"
    /\ UNCHANGED <<inputFile, data, num_points, filtered_data, new_data,
                   plyOut, splatOut, splatRow, err>>
    /\ UNCHANGED <<inputDamage, opVars, sharpVars, envVars>>

Next ==
    \/ ReadPly
    \/ FilterRows
    \/ BuildStandard
    \/ WritePly
    \/ SplatOpen
    \/ SplatWriteRow
    \/ Return

Spec == Init /\ [][Next]_vars

-----------------------------------------------------------------------------
(* Properties of the compact encoder *)

\* rows save_as_splat has written so far
RowsWritten == IF pc \in {"splat_rows", "done"} THEN splatRow - 1 ELSE 0

\* the 14 values written for row i
RecordAt(i) == SubSeq(splatOut.written, 14 * (i - 1) + 1, 14 * i)

\* the four rotation components of a row, in column order rot_0..rot_3
Rot4(row) == <<row["rot_0"], row["rot_1"], row["rot_2"], row["rot_3"]>>

\* C1: for every row written, rotation byte k (k = 0..3) is derived from the
\* standardized rot_k, so the bytes are in XYZW order and the last byte (qw)
\* comes from the standardized rot_3.
C1_RotationBytesXYZW ==
    \A i \in 1..RowsWritten :
        \A k \in 1..4 :
            RecordAt(i)[10 + k] = U8(QuantizeRotation(Rot4(new_data[i]))[k])

\* the point x=1, y=2, z=3, zero scale, colour and opacity, rot=(0,0,0,1)
ExamplePoint ==
    [p \in Range(dtype_standard) |->
        CASE p = "x" -> Fin(1000) [] p = "y" -> Fin(2000) [] p = "z" -> Fin(3000)
          [] p = "rot_3" -> Fin(1000)
          [] OTHER -> Fin(0)]

\* C2: encoding the store holding only the example point yields one record
\* with floats 1,2,3,1,1,1, colour bytes (128,128,128,128) and rotation
\* bytes (128,128,128,255).
C2_WorkedExample ==
    (pc = "done" /\ new_data = <<ExamplePoint>>) =>
        splatOut.written =
            <<Fin(1000), Fin(2000), Fin(3000), Fin(1000), Fin(1000), Fin(1000),
              U8(128), U8(128), U8(128), U8(128),
              U8(128), U8(128), U8(128), U8(255)>>

\* round(c * 255) of a channel c given in millionths, half rounded up
Round255(c) == (2 * c * 255 + 1000000) \div 2000000

\* floor(c * 255) of a channel c given in millionths
Floor255(c) == (c * 255) \div 1000000

\* the four colour channels of a row, in the order R, G, B, A
Channels(row) ==
    <<PreviewColor(row["f_dc_0"]), PreviewColor(row["f_dc_1"]),
      PreviewColor(row["f_dc_2"]), PreviewAlpha(row["opacity"])>>

C4_SplatLength ==
    /\ splatOut.exists =>
          /\ FileLength(splatOut.written) = 32 * RowsWritten
          /\ Len(splatOut.written) = 14 * RowsWritten
          /\ \A i \in 1..RowsWritten :
                /\ FileLength(SubSeq(RecordAt(i), 1, 3)) = 12
                /\ FileLength(SubSeq(RecordAt(i), 4, 6)) = 12
                /\ FileLength(SubSeq(RecordAt(i), 7, 10)) = 4
                /\ FileLength(SubSeq(RecordAt(i), 11, 14)) = 4
                /\ SubSeq(RecordAt(i), 1, 3) =
                      <<new_data[i]["x"], new_data[i]["y"], new_data[i]["z"]>>
    /\ pc = "done" =>
          /\ splatOut.exists
          /\ FileLength(splatOut.written) = 32 * result[1]

\* a finished run that kept two rows
C4_Witness ==
    /\ pc = "done"
    /\ result[1] = 2
    /\ FileLength(splatOut.written) = 64

-----------------------------------------------------------------------------
(* Properties of standardize_ply *)

\* the rows of the source vertex element
SourceRows == GetElement(inputFile, "vertex").rows

\* new_data has been built
Built == pc \in {"write_ply", "splat_open", "splat_rows", "done"}

\* the standard PLY has been written
Written == pc \in {"splat_open", "splat_rows", "done"}

\* the source rows at which all 14 columns are finite
FiniteIndices ==
    {i \in 1..Len(SourceRows) :
        \A p \in Range(dtype_standard) : SourceRows[i][p].k = "fin"}

\* the j-th of them, counting upwards
NthFinite(j) ==
    CHOOSE i \in FiniteIndices :
        Cardinality({k \in FiniteIndices : k <= i}) = j

\* the source row a standardized row comes from, told by its ten unpermuted
\* columns and its rotation components
SameRow(out, src) ==
    /\ \A p \in Range(copied) : out[p] = src[p]
    /\ {out[p] : p \in {"rot_0", "rot_1", "rot_2", "rot_3"}} =
       {src[p] : p \in {"rot_0", "rot_1", "rot_2", "rot_3"}}

\* C5: the standardized rows are exactly the source rows at which all 14
\* required columns are finite, in their source order.
C5_StableFilter ==
    /\ Built =>
          /\ Len(new_data) = Cardinality(FiniteIndices)
          /\ \A j \in 1..Len(new_data) :
                SameRow(new_data[j], SourceRows[NthFinite(j)])
    /\ Written =>
          /\ Len(plyOut.elements[1].rows) = Cardinality(FiniteIndices)
          /\ \A j \in 1..Cardinality(FiniteIndices) :
                SameRow(plyOut.elements[1].rows[j], SourceRows[NthFinite(j)])

\* a written file that kept a later row after dropping an earlier one which
\* held an infinity
C5_Witness ==
    /\ Written
    /\ \E i \in 1..Len(SourceRows) :
          /\ i \notin FiniteIndices
          /\ \E p \in Range(dtype_standard) : SourceRows[i][p].k = "inf"
          /\ \E k \in FiniteIndices : k > i
    /\ Len(new_data) >= 1

\* C6: kept + dropped = N with both counts non-negative, and kept = N when
\* no required value of any row is non-finite.
C6_RowCountConservation ==
    pc = "done" =>
        /\ Len(result) = 2
        /\ result[1] + result[2] = Len(SourceRows)
        /\ result[1] >= 0
        /\ result[2] >= 0
        /\ result[1] = Cardinality(FiniteIndices)
        /\ (FiniteIndices = 1..Len(SourceRows)) => result[1] = Len(SourceRows)

\* a finished run that kept one row and dropped one
C6_Witness ==
    /\ pc = "done"
    /\ result = <<1, 1>>

\* C7: for every kept row the standardized rotation columns are the source
\* ones shifted: rot_0 <- rot_1, rot_1 <- rot_2, rot_2 <- rot_3,
\* rot_3 <- rot_0, each value unchanged.
C7_RotationPermutation ==
    /\ Built =>
          \A j \in 1..Len(new_data) :
              /\ new_data[j]["rot_0"] = filtered_data[j]["rot_1"]
              /\ new_data[j]["rot_1"] = filtered_data[j]["rot_2"]
              /\ new_data[j]["rot_2"] = filtered_data[j]["rot_3"]
              /\ new_data[j]["rot_3"] = filtered_data[j]["rot_0"]
    /\ Written =>
          \A j \in 1..Len(filtered_data) :
              Rot4(plyOut.elements[1].rows[j]) =
                  <<filtered_data[j]["rot_1"], filtered_data[j]["rot_2"],
                    filtered_data[j]["rot_3"], filtered_data[j]["rot_0"]>>

\* a kept row with four different rotation components
C7_Witness ==
    /\ Written
    /\ \E j \in 1..Len(filtered_data) :
          Cardinality({filtered_data[j][p] :
                          p \in {"rot_0", "rot_1", "rot_2", "rot_3"}}) = 4

\* the permutation standardize_ply applies, on a 4-tuple (w, x, y, z)
ToXYZW(t) ==
    LET fr == [p \in {"rot_0", "rot_1", "rot_2", "rot_3"} |->
                  CASE p = "rot_0" -> t[1] [] p = "rot_1" -> t[2]
                    [] p = "rot_2" -> t[3] [] p = "rot_3" -> t[4]]
    IN  <<fr[SourceColumn("rot_0")], fr[SourceColumn("rot_1")],
          fr[SourceColumn("rot_2")], fr[SourceColumn("rot_3")]>>

\* the inverse permutation, on a 4-tuple (x, y, z, w)
ToWXYZ(t) == <<t[4], t[1], t[2], t[3]>>

\* the rotation 4-tuples of the rows read, non-finite ones included
RotationTuples ==
    IF Range(required) \subseteq Range(data.props)
    THEN {Rot4(data.rows[i]) : i \in 1..Len(data.rows)}
    ELSE {}

\* C8: WXYZ -> XYZW followed by XYZW -> WXYZ returns every 4-tuple
\* unchanged, and the first alone is what standardize_ply stores.
C8_PermutationRoundTrip ==
    /\ \A t \in RotationTuples : ToWXYZ(ToXYZW(t)) = t
    /\ Built => \A j \in 1..Len(new_data) :
                    ToWXYZ(Rot4(new_data[j])) = Rot4(filtered_data[j])

\* a 4-tuple with four different components, one of them not finite
C8_Witness ==
    /\ Built
    /\ \E t \in RotationTuples :
          /\ Cardinality({t[1], t[2], t[3], t[4]}) = 4
          /\ \E k \in 1..4 : t[k].k # "fin"
    /\ Len(new_data) >= 1

\* C9: the written PLY holds one element, vertex, with exactly the 14
\* standard columns in order, whatever else the source file carries.
C9_CanonicalSchema ==
    Written =>
        /\ plyOut.exists
        /\ plyOut.format = "binary_little_endian"
        /\ Len(plyOut.elements) = 1
        /\ plyOut.elements[1].name = "vertex"
        /\ plyOut.elements[1].props =
              <<"x", "y", "z", "scale_0", "scale_1", "scale_2",
                "rot_0", "rot_1", "rot_2", "rot_3",
                "f_dc_0", "f_dc_1", "f_dc_2", "opacity">>
        /\ \A j \in 1..Len(plyOut.elements[1].rows) :
              DOMAIN plyOut.elements[1].rows[j] =
                  {"x", "y", "z", "scale_0", "scale_1", "scale_2",
                   "rot_0", "rot_1", "rot_2", "rot_3",
                   "f_dc_0", "f_dc_1", "f_dc_2", "opacity"}

\* a written file whose source had f_rest_0 and the camera elements
C9_Witness ==
    /\ Written
    /\ Len(inputFile.elements) = 3
    /\ "f_rest_0" \in Range(data.props)
    /\ Len(plyOut.elements[1].rows) >= 1

\* C10: for every kept row the ten columns other than the rotation hold the
\* source value of the same-named column, scale and opacity as read.
C10_ValuesUnchanged ==
    /\ Built =>
          \A j \in 1..Len(new_data) :
              \A p \in {"x", "y", "z", "scale_0", "scale_1", "scale_2",
                        "f_dc_0", "f_dc_1", "f_dc_2", "opacity"} :
                  new_data[j][p] = filtered_data[j][p]
    /\ Written =>
          \A j \in 1..Len(filtered_data) :
              \A p \in {"x", "y", "z", "scale_0", "scale_1", "scale_2",
                        "f_dc_0", "f_dc_1", "f_dc_2", "opacity"} :
                  plyOut.elements[1].rows[j][p] = filtered_data[j][p]

\* a kept row with a non-zero log-scale and a non-zero logit opacity
C10_Witness ==
    /\ Written
    /\ \E j \in 1..Len(new_data) :
          /\ filtered_data[j]["scale_0"] = Fin(-2000)
          /\ filtered_data[j]["opacity"] = Fin(2000)
          /\ new_data[j]["scale_0"] = Fin(-2000)

-----------------------------------------------------------------------------
(* Failures and frame of standardize_ply *)

\* the file parses and has a vertex element that lacks a required column
SchemaIncomplete ==
    /\ inputDamage = ""
    /\ HasElement(inputFile, "vertex")
    /\ ~({"x", "y", "z", "f_dc_0", "f_dc_1", "f_dc_2", "opacity",
          "scale_0", "scale_1", "scale_2",
          "rot_0", "rot_1", "rot_2", "rot_3"}
            \subseteq Range(GetElement(inputFile, "vertex").props))

\* C11: on a store that lacks a required column standardize_ply fails with
\* its schema error before it builds or writes anything: neither the
\* standard PLY nor the compact file exists.
C11_NoOutputOnIncompleteSchema ==
    SchemaIncomplete =>
        /\ pc \in {"read", "filter", "raised"}
        /\ ~plyOut.exists
        /\ ~splatOut.exists
        /\ filtered_data = <<>>
        /\ new_data = <<>>
        /\ result = <<>>
        /\ pc = "raised" => err = "ValueError"

\* the failure on a store of two rows that lacks opacity and rot_2
C11_Witness ==
    /\ SchemaIncomplete
    /\ pc = "raised"
    /\ err = "ValueError"
    /\ Len(data.rows) = 2
    /\ "opacity" \notin Range(data.props)

\* C15: a row whose rotation is (0,0,0,0) is written without normalization
\* and without raising: its four rotation bytes are 128 and its record has
\* the full 32 bytes.
C15_ZeroQuaternion ==
    /\ \A i \in 1..RowsWritten :
          Rot4(new_data[i]) = <<Fin(0), Fin(0), Fin(0), Fin(0)>> =>
              /\ Len(RecordAt(i)) = 14
              /\ FileLength(RecordAt(i)) = 32
              /\ SubSeq(RecordAt(i), 11, 14) =
                    <<U8(128), U8(128), U8(128), U8(128)>>
    /\ pc = "raised" => ~splatOut.exists

\* a finished run whose first row had the zero quaternion
C15_Witness ==
    /\ pc = "done"
    /\ RowsWritten >= 1
    /\ Rot4(new_data[1]) = <<Fin(0), Fin(0), Fin(0), Fin(0)>>
    /\ SubSeq(RecordAt(1), 11, 14) = <<U8(128), U8(128), U8(128), U8(128)>>

\* the file cannot be read as a point cloud
Unreadable == inputDamage # "" \/ ~HasElement(inputFile, "vertex")

\* C17: a file with no vertex element, an unparsable header or a body of
\* the wrong length makes the read fail before anything is filtered or
\* written.
C17_ParseErrorBeforeOutput ==
    Unreadable =>
        /\ pc \in {"read", "raised"}
        /\ data = NoData
        /\ filtered_data = <<>>
        /\ new_data = <<>>
        /\ ~plyOut.exists
        /\ ~splatOut.exists
        /\ result = <<>>
        /\ pc = "raised" => err \in {"PlyParseError", "ValueError"}

\* the failure on a file that parses and holds only the camera elements
C17_Witness ==
    /\ pc = "raised"
    /\ err = "ValueError"
    /\ inputDamage = ""
    /\ inputFile.exists
    /\ ~HasElement(inputFile, "vertex")

\* C18: standardize_ply never changes the file it read nor the array it
\* read from it, whether it returns or raises.
C18_InputNotMutated ==
    /\ [](pc \notin {"read", "raised"} =>
             data = GetElement(inputFile, "vertex"))
    /\ [][/\ inputFile' = inputFile
          /\ inputDamage' = inputDamage
          /\ pc # "read" => data' = data]_vars

\* a finished run whose output differs from its input: a row was dropped
\* and the rotation of a kept row was permuted
C18_Witness ==
    /\ pc = "done"
    /\ Len(new_data) >= 1
    /\ Len(new_data) < Len(data.rows)
    /\ Rot4(new_data[1]) # Rot4(filtered_data[1])

-----------------------------------------------------------------------------
(* Round trip of the standard file *)

\* the standard-layout store made of every row read, finite or not
StoreOfAllRows ==
    [i \in 1..Len(data.rows) |-> StandardRow(data.rows[i])]

RoundTrips(nd) ==
    \A bytes \in {PlyEncode(StandardPly(nd))} :
    \A back \in {PlyDecode(bytes)} :
        /\ bytes.header[2] = HeaderLine("format", "binary_little_endian", 1)
        /\ Len(bytes.body) = Len(nd) * 56
        /\ back.exists
        /\ Len(back.elements) = 1
        /\ back.elements[1].props = dtype_standard
        /\ Len(back.elements[1].rows) = Len(nd)
        /\ \A i \in 1..Len(nd) : \A p \in Range(dtype_standard) :
              F32Bytes(back.elements[1].rows[i][p]) = F32Bytes(nd[i][p])
        /\ back = StandardPly(nd)

\* C16: a store with the 14 standard columns written as a binary
\* little-endian point file and read back has the same columns in the same
\* order, the same number of rows and the same float32 bits in every cell.
C16_PlyRoundTrip ==
    /\ plyOut.exists => plyOut = StandardPly(new_data) /\ RoundTrips(new_data)
    /\ pc \in {"build", "write_ply", "splat_open", "splat_rows", "done"} =>
          RoundTrips(StoreOfAllRows)

\* a written file with a row, and a store read with a NaN or an infinity
C16_Witness ==
    /\ pc = "done"
    /\ plyOut.exists
    /\ Len(new_data) >= 1
    /\ \E i \in 1..Len(data.rows) : \E p \in Range(dtype_standard) :
          ~isfinite(data.rows[i][p])

-----------------------------------------------------------------------------
(* The 3DGS setup that both operators run on an imported mesh:
   SNA_OT_Generate_Gaussians_From_Image.execute ("generate") and
   SNA_OT_Dgs_Render_Import_Ply_E0A3A.execute ("import"). *)

\* standardize_ply is not running
PipeIdle ==
    /\ inputFile = NoFile
    /\ pc = "idle"
    /\ data = NoData
    /\ num_points = 0
    /\ filtered_data = <<>>
    /\ new_data = <<>>
    /\ plyOut = NoFile
    /\ splatOut = NoSplat
    /\ splatRow = 0
    /\ result = <<>>
    /\ err = ""
    /\ inputDamage = ""

\* required_attributes of each operator
required_attributes(s) ==
    IF s = "generate"
    THEN <<"f_dc_0", "f_dc_1", "f_dc_2", "opacity",
           "scale_0", "scale_1", "scale_2",
           "rot_0", "rot_1", "rot_2", "rot_3">>
    ELSE <<"f_dc_0", "f_dc_1", "f_dc_2", "opacity",
           "scale_0", "scale_1", "scale_2",
           "rot_0", "rot_1", "rot_2", "rot_3", "f_rest_0">>

\* the loop left at the first missing name
MissingAttrs_first(req, attrs) ==
    LET all == SelectSeq(req, LAMBDA a : a \notin attrs)
    IN  IF all = <<>> THEN <<>> ELSE <<all[1]>>

\* missing_attrs after the loop over required_attributes
MissingAttrs(req, attrs) == SelectSeq(req, LAMBDA a : a \notin attrs)

\* the attribute names an imported mesh can have: the vertex positions are
\* not attributes; up to two of the listed names are absent
Droppable == {"opacity", "rot_2", "f_rest_0", "f_dc_0", "scale_1"}
MeshAttributeSets ==
    {(AllSrcProps \ {"x", "y", "z"}) \ d :
        d \in {e \in SUBSET Droppable : Cardinality(e) <= 2}}

\* the per-vertex values of the attributes a mesh has
MeshPoints(attrs) ==
    {[i \in 1..Len(rs) |-> [p \in attrs |-> rs[i][p]]] :
        rs \in RowSeqs(PreviewRows)}

ImportInit ==
    /\ PipeIdle
    /\ SharpIdle
    /\ EnvIdle
    /\ site \in {"generate", "import"}
    /\ meshAttrs \in MeshAttributeSets
    /\ points \in MeshPoints(meshAttrs)
    /\ opc = "check"
    /\ missing_attrs = <<>>
    /\ report = <<>>
    /\ opResult = ""
    /\ color_data = <<>>

\* the loop collecting missing_attrs, the report and return {'CANCELLED'}
CheckAttributes ==
    /\ opc = "check"
    /\ missing_attrs' = MissingAttrs(required_attributes(site), meshAttrs)
    /\ IF missing_attrs' # <<>>
       THEN /\ report' = <<"ERROR", missing_attrs'>>
            /\ opResult' = "CANCELLED"
            /\ opc' = "done"
       ELSE /\ opc' = "color"
            /\ UNCHANGED <<report, opResult>>
    /\ UNCHANGED <<site, meshAttrs, points, color_data>>
    /\ UNCHANGED <<pipeVars, sharpVars, envVars>>

\* R, G and B without the clamp
PreviewRGBA_noclamp(pt) ==
    <<pt["f_dc_0"].v * SH_C0 + 500 * 1000,
      pt["f_dc_1"].v * SH_C0 + 500 * 1000,
      pt["f_dc_2"].v * SH_C0 + 500 * 1000,
      PreviewAlpha(pt["opacity"])>>

\* [R, G, B, A] of one point
PreviewRGBA(pt) ==
    <<PreviewColor(pt["f_dc_0"]), PreviewColor(pt["f_dc_1"]),
      PreviewColor(pt["f_dc_2"]), PreviewAlpha(pt["opacity"])>>

\* one iteration of the loop: color_data.extend([R, G, B, A])
ColorPoint ==
    /\ opc = "color"
    /\ Len(color_data) < 4 * Len(points)
    /\ color_data' = color_data \o PreviewRGBA(points[Len(color_data) \div 4 + 1])
    /\ UNCHANGED <<site, meshAttrs, points, opc, missing_attrs, report, opResult>>
    /\ UNCHANGED <<pipeVars, sharpVars, envVars>>

\* the loop is over; the colour attributes are set and the operator finishes
FinishSetup ==
    /\ opc = "color"
    /\ Len(color_data) = 4 * Len(points)
    /\ opc' = "done"
    /\ opResult' = "FINISHED"
    /\ UNCHANGED <<site, meshAttrs, points, missing_attrs, report, color_data>>
    /\ UNCHANGED <<pipeVars, sharpVars, envVars>>

ImportNext == CheckAttributes \/ ColorPoint \/ FinishSetup

SpecImport == ImportInit /\ [][ImportNext]_vars

\* the check of a site has run and cancelled the operator
Rejected == opc = "done" /\ opResult = "CANCELLED"

\* C12: at both sites the attribute check fails iff some required name is
\* not an attribute of the mesh, and the report carries every missing name,
\* each once, in the order of the required list.
C12_AllMissingReported ==
    opc # "check" =>
        LET req == required_attributes(site)
            diff == Range(req) \ meshAttrs
        IN  /\ Rejected <=> diff # {}
            /\ Range(missing_attrs) = diff
            /\ Len(missing_attrs) = Cardinality(diff)
            /\ Rejected => report = <<"ERROR", missing_attrs>>
            /\ ~Rejected => report = <<>>

\* a mesh without opacity and rot_2 is reported with both names
C12_Witness ==
    /\ Rejected
    /\ site = "generate"
    /\ report = <<"ERROR", <<"opacity", "rot_2">>>>

\* the columns of the store a mesh stands for: the vertex positions and the
\* attributes
StoreColumns == meshAttrs \cup {"x", "y", "z"}

\* C13: every validation site accepts a store iff it has the 14 names
\* x, y, z, f_dc_0..2, opacity, scale_0..2, rot_0..3 (f_rest_0 is not
\* needed).
C13_SameSchemaEverywhere ==
    opc # "check" =>
        (Rejected <=> ~(Range(required) \subseteq StoreColumns))

\* the numbers a point's colour is computed from
ColorInputs(pt) ==
    <<pt["f_dc_0"], pt["f_dc_1"], pt["f_dc_2"], pt["opacity"]>>

PointsColored == Len(color_data) \div 4

ColorAt(i) == SubSeq(color_data, 4 * i - 3, 4 * i)

\* C14: for finite inputs every channel of a point's preview colour is in
\* [0,1] (in millionths); opacity 0 gives A = 0.5 and f_dc_i = 0 gives that
\* channel 0.5; points with equal inputs get equal colours.
C14_PreviewColorBounded ==
    /\ Len(color_data) = 4 * PointsColored
    /\ PointsColored <= Len(points)
    /\ \A i \in 1..PointsColored :
          /\ \A c \in 1..4 : ColorAt(i)[c] \in 0..1000000
          /\ \A c \in 1..3 :
                ColorInputs(points[i])[c] = Fin(0) => ColorAt(i)[c] = 500000
          /\ points[i]["opacity"] = Fin(0) => ColorAt(i)[4] = 500000
          /\ \A j \in 1..PointsColored :
                ColorInputs(points[i]) = ColorInputs(points[j]) =>
                    ColorAt(i) = ColorAt(j)

\* a finished operator that coloured a point with zero inputs and a point
\* whose channels reach both ends of the range
C14_Witness ==
    /\ opResult = "FINISHED"
    /\ PointsColored = 2
    /\ ColorAt(1) = <<500000, 500000, 500000, 500000>>
    /\ \E c \in 1..4 : ColorAt(2)[c] = 1000000
    /\ \E c \in 1..4 : ColorAt(2)[c] = 0

-----------------------------------------------------------------------------
(* predict_gaussians_from_image ("predict") and standardize_ply_format
   ("format"), the two functions that start a subprocess of the ML-Sharp
   Python. *)

\* the PLY files ML-Sharp writes: a vertex element and the camera elements
SharpFiles ==
    {PlyFile(<<Element("vertex", SrcWithRest, rs)>> \o CameraElements) :
        rs \in RowSeqs(RestRows)}

SharpInit ==
    /\ PipeIdle
    /\ OperatorIdle
    /\ EnvIdle
    /\ entry \in {"predict", "format"}
    /\ wpc = IF entry = "predict" THEN "start" ELSE "format_start"
    /\ pythonExists \in BOOLEAN
    /\ imageExists \in BOOLEAN
    /\ mkdirCalled = FALSE
    /\ started = <<>>
    /\ plyAtPath \in IF entry = "predict" THEN {NoFile}
                     ELSE {NoFile} \cup SharpFiles
    /\ tempFile = NoFile
    /\ exits = <<>>
    /\ wret = ""
    /\ wraised = ""

\* the directory made before the two checks
PredictStart_mkdirFirst ==
    /\ wpc = "start"
    /\ mkdirCalled' = TRUE
    /\ IF ~pythonExists \/ ~imageExists
       THEN /\ wraised' = "FileNotFoundError"
            /\ wpc' = "done"
            /\ UNCHANGED started
       ELSE /\ started' = Append(started, "sharp predict")
            /\ wpc' = "predict_run"
            /\ UNCHANGED wraised
    /\ UNCHANGED <<entry, pythonExists, imageExists, plyAtPath, tempFile,
                   exits, wret>>
    /\ UNCHANGED <<pipeVars, opVars, envVars>>

\* predict_gaussians_from_image up to subprocess.run: the two checks, mkdir
\* and the start of 'sharp predict'
PredictStart ==
    /\ wpc = "start"
    /\ IF ~pythonExists \/ ~imageExists
       THEN /\ wraised' = "FileNotFoundError"
            /\ wpc' = "done"
            /\ UNCHANGED <<mkdirCalled, started>>
       ELSE /\ mkdirCalled' = TRUE
            /\ started' = Append(started, "sharp predict")
            /\ wpc' = "predict_run"
            /\ UNCHANGED wraised
    /\ UNCHANGED <<entry, pythonExists, imageExists, plyAtPath, tempFile,
                   exits, wret>>
    /\ UNCHANGED <<pipeVars, opVars, envVars>>

\* subprocess.run without check=True: the exit code is not looked at
PredictSubprocessEnds_ignoreExit ==
    /\ wpc = "predict_run"
    /\ \E code \in {"exit0", "nonzero"} : \E out \in {NoFile} \cup SharpFiles :
          /\ exits' = Append(exits, code)
          /\ plyAtPath' = out
          /\ IF out.exists
             THEN /\ wpc' = "format_start"
                  /\ UNCHANGED wraised
             ELSE /\ wpc' = "done"
                  /\ wraised' = "RuntimeError"
    /\ UNCHANGED <<entry, pythonExists, imageExists, mkdirCalled, started,
                   tempFile, wret>>
    /\ UNCHANGED <<pipeVars, opVars, envVars>>

\* 'sharp predict' ends: a nonzero exit code is a CalledProcessError; after
\* exit code 0 the PLY is looked for at output_path / stem.ply
PredictSubprocessEnds ==
    /\ wpc = "predict_run"
    /\ \E code \in {"exit0", "nonzero"} : \E out \in {NoFile} \cup SharpFiles :
          /\ exits' = Append(exits, code)
          /\ plyAtPath' = out
          /\ IF code = "exit0" /\ out.exists
             THEN /\ wpc' = "format_start"
                  /\ UNCHANGED wraised
             ELSE /\ wpc' = "done"
                  /\ wraised' = "RuntimeError"
    /\ UNCHANGED <<entry, pythonExists, imageExists, mkdirCalled, started,
                   tempFile, wret>>
    /\ UNCHANGED <<pipeVars, opVars, envVars>>

\* an exception of standardize_ply_format as its caller sees it: inside
\* predict_gaussians_from_image 'except Exception' turns it into RuntimeError
Propagate(e) == IF entry = "predict" THEN "RuntimeError" ELSE e

\* standardize_ply_format up to subprocess.run: the two checks and the start
\* of python -c python_code ply_path temp_output
FormatStart ==
    /\ wpc = "format_start"
    /\ IF ~pythonExists \/ ~plyAtPath.exists
       THEN /\ wraised' = Propagate("FileNotFoundError")
            /\ wpc' = "done"
            /\ UNCHANGED started
       ELSE /\ started' = Append(started, "standardize")
            /\ wpc' = "format_run"
            /\ UNCHANGED wraised
    /\ UNCHANGED <<entry, pythonExists, imageExists, mkdirCalled, plyAtPath,
                   tempFile, exits, wret>>
    /\ UNCHANGED <<pipeVars, opVars, envVars>>

\* what running python_code leaves at temp_output: the code defines
\* save_as_splat and standardize_ply and calls neither
PythonCodeOutput(ply, temp) == temp

\* the handlers unlinking ply_path in place of temp_output
FormatSubprocessEnds_unlinkOriginal ==
    /\ wpc = "format_run"
    /\ \E code \in {"exit0", "nonzero", "timeout"} :
          LET temp == PythonCodeOutput(plyAtPath, tempFile)
          IN  /\ exits' = Append(exits, code)
              /\ wpc' = "done"
              /\ IF code = "exit0" /\ temp.exists
                 THEN /\ plyAtPath' = temp
                      /\ tempFile' = NoFile
                      /\ wret' = IF entry = "predict" THEN "output_ply"
                                 ELSE "True"
                      /\ UNCHANGED wraised
                 ELSE /\ wraised' = "RuntimeError"
                      /\ plyAtPath' = NoFile
                      /\ tempFile' = temp
                      /\ UNCHANGED wret
    /\ UNCHANGED <<entry, pythonExists, imageExists, mkdirCalled, started>>
    /\ UNCHANGED <<pipeVars, opVars, envVars>>

\* the subprocess ends with exit code 0, a nonzero code or the timeout;
\* shutil.move and return True if temp_output exists, else RuntimeError;
\* the handlers unlink temp_output
FormatSubprocessEnds ==
    /\ wpc = "format_run"
    /\ \E code \in {"exit0", "nonzero", "timeout"} :
          LET temp == PythonCodeOutput(plyAtPath, tempFile)
          IN  /\ exits' = Append(exits, code)
              /\ wpc' = "done"
              /\ tempFile' = NoFile
              /\ IF code = "exit0" /\ temp.exists
                 THEN /\ plyAtPath' = temp
                      /\ wret' = IF entry = "predict" THEN "output_ply"
                                 ELSE "True"
                      /\ UNCHANGED wraised
                 ELSE /\ wraised' = "RuntimeError"
                      /\ UNCHANGED <<plyAtPath, wret>>
    /\ UNCHANGED <<entry, pythonExists, imageExists, mkdirCalled, started>>
    /\ UNCHANGED <<pipeVars, opVars, envVars>>

SharpNext ==
    \/ PredictStart
    \/ PredictSubprocessEnds
    \/ FormatStart
    \/ FormatSubprocessEnds

SpecSharp == SharpInit /\ [][SharpNext]_vars

\* a file in the standard layout: one vertex element, the 14 columns in
\* standard order, finite values only
IsStandardPly(file) ==
    /\ file.exists
    /\ Len(file.elements) = 1
    /\ file.elements[1].name = "vertex"
    /\ file.elements[1].props = dtype_standard
    /\ \A i \in 1..Len(file.elements[1].rows) :
          \A p \in Range(dtype_standard) :
              isfinite(file.elements[1].rows[i][p])

\* C19: when the ML-Sharp Python and the PLY exist and the standardization
\* subprocess exits with code 0 in time, standardize_ply_format returns True
\* and the file at ply_path is the standardized PLY.
C19_FormatReturnsTrue ==
    (/\ entry = "format"
     /\ wpc = "done"
     /\ started = <<"standardize">>
     /\ exits = <<"exit0">>) =>
        /\ wret = "True"
        /\ wraised = ""
        /\ IsStandardPly(plyAtPath)

\* C20: when the ML-Sharp Python or the image is missing,
\* predict_gaussians_from_image raises FileNotFoundError, the output
\* directory is not made and no subprocess is started; it raises
\* FileNotFoundError in no other case.
C20_FileNotFoundNoSideEffect ==
    entry = "predict" =>
        /\ (~pythonExists \/ ~imageExists) =>
              /\ ~mkdirCalled
              /\ started = <<>>
              /\ exits = <<>>
              /\ ~plyAtPath.exists
              /\ ~tempFile.exists
              /\ wret = ""
              /\ wpc = "done" => wraised = "FileNotFoundError"
        /\ wraised = "FileNotFoundError" => ~pythonExists \/ ~imageExists

\* the call has raised for a missing image with the Python present
C20_Witness ==
    /\ entry = "predict"
    /\ wpc = "done"
    /\ wraised = "FileNotFoundError"
    /\ pythonExists
    /\ ~imageExists

\* C21: predict_gaussians_from_image returns the PLY path only after
\* 'sharp predict' exited with code 0, the PLY existed and the
\* standardization, started after that, succeeded; every other outcome after
\* the input checks is a RuntimeError and no path is returned.
C21_PathOnlyAfterSuccess ==
    entry = "predict" =>
        /\ wret # "" =>
              /\ wret = "output_ply"
              /\ wraised = ""
              /\ started = <<"sharp predict", "standardize">>
              /\ exits = <<"exit0", "exit0">>
              /\ plyAtPath.exists
        /\ (\E i \in 1..Len(started) : started[i] = "standardize") =>
              /\ started[1] = "sharp predict"
              /\ Len(exits) >= 1
              /\ exits[1] = "exit0"
              /\ plyAtPath.exists
        /\ (wpc = "done" /\ mkdirCalled /\ wret = "") =>
              wraised = "RuntimeError"
        /\ wraised # "" => wret = ""

\* a prediction that succeeded and whose standardization then failed
C21_Witness ==
    /\ entry = "predict"
    /\ wpc = "done"
    /\ started = <<"sharp predict", "standardize">>
    /\ exits = <<"exit0", "exit0">>
    /\ plyAtPath.exists
    /\ wraised = "RuntimeError"
    /\ wret = ""

\* C27: when standardize_ply_format raises after it started the subprocess,
\* the temporary file does not exist and the file at ply_path exists
\* unchanged; the file at ply_path changes only in the step that returns
\* True.
C27_FailureLeavesOriginal ==
    /\ []((wraised # "" /\ \E i \in 1..Len(started) : started[i] = "standardize")
             => ~tempFile.exists /\ plyAtPath.exists)
    /\ [][(wpc = "format_run" /\ wret' = "") =>
             plyAtPath' = plyAtPath /\ ~tempFile'.exists]_vars

\* standardize_ply_format called on a PLY with rows has raised after a
\* nonzero exit code of its subprocess
C27_Witness ==
    /\ entry = "format"
    /\ wpc = "done"
    /\ wraised = "RuntimeError"
    /\ exits = <<"nonzero">>
    /\ plyAtPath.exists
    /\ Len(plyAtPath.elements[1].rows) = 2
    /\ ~tempFile.exists

-----------------------------------------------------------------------------
(* The cache of the environment status: invalidate_env_cache and
   get_cached_environment_status of EasyEnv/__init__.py. Time is counted in
   whole seconds. *)

MaxTime == 8

\* the statuses check_environment_status can return: packages are looked
\* for only with the Python present
DiskStatuses ==
    {Status(p, k, c) : p \in BOOLEAN, k \in BOOLEAN, c \in BOOLEAN}
    \ {Status(FALSE, TRUE, c) : c \in BOOLEAN}

\* status['python_installed'] and status['packages_installed'] and
\* status['checkpoint_exists']
FullyInstalled(st) ==
    st.python_installed /\ st.packages_installed /\ st.checkpoint_exists

CacheSeconds == 5

\* the window with its end included
Fresh_inclusive(t, ct) == t - ct <= CacheSeconds

\* (current_time - _env_status_cache_time) < 5.0
Fresh(t, ct) == t - ct < CacheSeconds

CacheInit ==
    /\ PipeIdle
    /\ OperatorIdle
    /\ SharpIdle
    /\ InstallIdle
    /\ DownloadIdle
    /\ env_status_cache = NoStatus
    /\ env_status_cache_time = 0
    /\ env_fully_installed = FALSE
    /\ now = 0
    /\ disk \in DiskStatuses
    /\ call = NoCall

Called(op, checked, raised, ret) ==
    [op |-> op, n |-> 1 - call.n, checked |-> checked, raised |-> raised,
     hadCache |-> env_status_cache.set, ret |-> ret]

\* the update of the cache by a check: the check returns what is on disk, or
\* raises and the call returns the all-False dict without caching
CheckAndStore ==
    \E raises \in BOOLEAN :
        IF raises
        THEN /\ call' = Called("get", TRUE, TRUE, Status(FALSE, FALSE, FALSE))
             /\ UNCHANGED <<env_status_cache, env_status_cache_time,
                            env_fully_installed>>
        ELSE /\ env_status_cache' = disk
             /\ env_status_cache_time' = now
             /\ env_fully_installed' =
                   IF FullyInstalled(disk) THEN TRUE ELSE env_fully_installed
             /\ call' = Called("get", TRUE, FALSE, disk)

ReturnCached ==
    /\ call' = Called("get", FALSE, FALSE, env_status_cache)
    /\ UNCHANGED <<env_status_cache, env_status_cache_time,
                   env_fully_installed>>

\* the function without its first test
GetCachedEnvironmentStatus_timed ==
    /\ IF env_status_cache.set /\ Fresh(now, env_status_cache_time)
       THEN ReturnCached
       ELSE CheckAndStore
    /\ UNCHANGED <<now, disk>>
    /\ UNCHANGED <<pipeVars, opVars, sharpVars, installVars, dlVars>>

\* get_cached_environment_status
GetCachedEnvironmentStatus ==
    /\ IF env_fully_installed /\ env_status_cache.set
       THEN ReturnCached
       ELSE IF env_status_cache.set /\ Fresh(now, env_status_cache_time)
       THEN ReturnCached
       ELSE CheckAndStore
    /\ UNCHANGED <<now, disk>>
    /\ UNCHANGED <<pipeVars, opVars, sharpVars, installVars, dlVars>>

\* the assignments of invalidate_env_cache
ResetCache ==
    /\ env_status_cache' = NoStatus
    /\ env_status_cache_time' = 0
    /\ env_fully_installed' = FALSE

\* invalidate_env_cache
InvalidateEnvCache ==
    /\ ResetCache
    /\ call' = Called("invalidate", FALSE, FALSE, NoStatus)
    /\ UNCHANGED <<now, disk>>
    /\ UNCHANGED <<pipeVars, opVars, sharpVars, installVars, dlVars>>

\* a second passes
Tick ==
    /\ now < MaxTime
    /\ now' = now + 1
    /\ UNCHANGED <<env_status_cache, env_status_cache_time,
                   env_fully_installed, disk, call>>
    /\ UNCHANGED <<pipeVars, opVars, sharpVars, installVars, dlVars>>

\* the environment on disk changes: something is installed or removed
DiskChanges ==
    /\ disk' \in DiskStatuses \ {disk}
    /\ UNCHANGED <<env_status_cache, env_status_cache_time,
                   env_fully_installed, now, call>>
    /\ UNCHANGED <<pipeVars, opVars, sharpVars, installVars, dlVars>>

CacheNext ==
    \/ GetCachedEnvironmentStatus
    \/ InvalidateEnvCache
    \/ Tick
    \/ DiskChanges

SpecCache == CacheInit /\ [][CacheNext]_vars

\* this step is a call of get_cached_environment_status
GetStep == call'.n # call.n /\ call'.op = "get"

\* this step is a call of invalidate_env_cache
InvalidateStep == call'.n # call.n /\ call'.op = "invalidate"

\* C22: once a status with all three components true has been observed,
\* every later call returns the cached status without a check, whatever the
\* time and whatever is on disk, until invalidate_env_cache is called.
C22_PermanentOnceInstalled ==
    /\ [](env_fully_installed =>
             env_status_cache.set /\ FullyInstalled(env_status_cache))
    /\ [][(GetStep /\ ~call'.raised /\ FullyInstalled(call'.ret)) =>
             env_fully_installed']_vars
    /\ [][(env_fully_installed /\ GetStep) =>
             /\ ~call'.checked
             /\ call'.ret = env_status_cache
             /\ env_status_cache' = env_status_cache
             /\ env_fully_installed']_vars
    /\ [][(env_fully_installed /\ ~env_fully_installed') =>
             InvalidateStep]_vars

\* a call answered from the permanent cache long after the check, with the
\* environment on disk no longer complete
C22_Witness ==
    /\ env_fully_installed
    /\ call.op = "get"
    /\ ~call.checked
    /\ FullyInstalled(call.ret)
    /\ now - env_status_cache_time > CacheSeconds
    /\ ~FullyInstalled(disk)

\* C23: while not fully installed, a call made less than 5 seconds after
\* the last successful check returns the cached status without a check; a
\* call made 5 seconds or more after it checks again and stores the result
\* and the time. Successful checks with no invalidation between them are at
\* least 5 seconds apart.
C23_FiveSecondWindow ==
    [][(GetStep /\ ~env_fully_installed /\ env_status_cache.set) =>
          IF now - env_status_cache_time < 5
          THEN /\ ~call'.checked
               /\ call'.ret = env_status_cache
               /\ env_status_cache' = env_status_cache
               /\ env_status_cache_time' = env_status_cache_time
          ELSE /\ call'.checked
               /\ ~call'.raised =>
                     /\ call'.ret = disk
                     /\ env_status_cache' = disk
                     /\ env_status_cache_time' = now
               /\ call'.raised =>
                     /\ env_status_cache' = env_status_cache
                     /\ env_status_cache_time' = env_status_cache_time]_vars

\* a second successful check, made exactly 5 seconds after the first
C23_Witness ==
    /\ call.op = "get"
    /\ call.hadCache
    /\ call.checked
    /\ ~call.raised
    /\ ~env_fully_installed
    /\ now = 5
    /\ env_status_cache_time = 5

-----------------------------------------------------------------------------
(* The Install Environment operator (SNA_OT_Install_Environment of
   EasyEnv/__init__.py), the thread it starts, and
   install_environment_windows of env_installer.py running in that thread.
   The panel may call get_cached_environment_status at any moment. *)

InstallInit ==
    /\ PipeIdle
    /\ OperatorIdle
    /\ SharpIdle
    /\ DownloadIdle
    /\ InstallIdle
    /\ disk \in DiskStatuses
    /\ env_status_cache \in {NoStatus, disk}
    /\ env_status_cache_time = 0
    /\ env_fully_installed =
          (env_status_cache.set /\ FullyInstalled(env_status_cache))
    /\ now = 0
    /\ call = NoCall

\* self.report({level}, text)
Report(level, text, detail) == <<level, text, detail>>

\* execute: the platform test, the import, the status test, then the
\* thread, the timer and the modal handler
Execute ==
    /\ ipc = "idle"
    /\ \E platform \in {"win32", "linux"} : \E importOk \in BOOLEAN :
          IF platform # "win32"
          THEN /\ reports' = <<Report("ERROR", "only supported on Windows", ""),
                               Report("INFO", "install manually", "")>>
               /\ opReturn' = "CANCELLED"
               /\ ipc' = "ended"
               /\ UNCHANGED <<timer, tpc>>
          ELSE IF ~importOk
          THEN /\ reports' = <<Report("ERROR", "Failed to import installer", "")>>
               /\ opReturn' = "CANCELLED"
               /\ ipc' = "ended"
               /\ UNCHANGED <<timer, tpc>>
          ELSE IF FullyInstalled(disk)
          THEN /\ reports' = <<Report("INFO", "already fully installed", "")>>
               /\ opReturn' = "FINISHED"
               /\ ipc' = "ended"
               /\ UNCHANGED <<timer, tpc>>
          ELSE /\ tpc' = "started"
               /\ timer' = TRUE
               /\ ipc' = "modal"
               /\ opReturn' = "RUNNING_MODAL"
               /\ reports' = <<Report("INFO", "Installing environment", ""),
                               Report("INFO", "Check the system console", "")>>
    /\ UNCHANGED <<is_running, success, error_message, status_message, ipos,
                   status, stepsRun, callbacks, iret>>
    /\ UNCHANGED <<pipeVars, opVars, sharpVars, cacheVars, dlVars>>

\* modal: on a TIMER event with _is_running false the timer is removed and
\* the operator ends; every other event passes through
Modal ==
    /\ ipc = "modal"
    /\ \E ev \in {"TIMER", "MOUSEMOVE"} :
          IF ev = "TIMER" /\ ~is_running
          THEN /\ timer' = FALSE
               /\ ipc' = "ended"
               /\ IF success
                  THEN /\ ResetCache
                       /\ call' = Called("invalidate", FALSE, FALSE, NoStatus)
                       /\ reports' = Append(reports,
                             Report("INFO", "Environment installation complete!", ""))
                       /\ opReturn' = "FINISHED"
                  ELSE /\ reports' = Append(reports,
                             Report("ERROR", "Installation failed",
                                    IF error_message # "" THEN error_message
                                    ELSE "Unknown error"))
                       /\ opReturn' = "CANCELLED"
                       /\ UNCHANGED <<env_status_cache, env_status_cache_time,
                                      env_fully_installed, call>>
          ELSE /\ opReturn' = "PASS_THROUGH"
               /\ UNCHANGED <<timer, ipc, reports, env_status_cache,
                              env_status_cache_time, env_fully_installed, call>>
    /\ UNCHANGED <<tpc, is_running, success, error_message, status_message,
                   ipos, status, stepsRun, callbacks, iret, now, disk>>
    /\ UNCHANGED <<pipeVars, opVars, sharpVars, dlVars>>

\* install_thread begins: self._is_running = True, then the call of
\* install_environment_windows
ThreadBegins ==
    /\ tpc = "started"
    /\ is_running' = TRUE
    /\ tpc' = "install"
    /\ ipos' = "sample"
    /\ UNCHANGED <<ipc, opReturn, reports, timer, success, error_message,
                   status_message, status, stepsRun, callbacks, iret>>
    /\ UNCHANGED <<pipeVars, opVars, sharpVars, cacheVars, dlVars>>

\* status = check_environment_status()
InstallSample ==
    /\ tpc = "install"
    /\ ipos = "sample"
    /\ status' = disk
    /\ ipos' = "python"
    /\ UNCHANGED <<ipc, opReturn, reports, timer, tpc, is_running, success,
                   error_message, status_message, stepsRun, callbacks, iret>>
    /\ UNCHANGED <<pipeVars, opVars, sharpVars, cacheVars, dlVars>>

\* pip and the packages decided by the Python's absence
Needed_byPython(step, st) ==
    CASE step = "python" -> ~st.python_installed
      [] step \in {"pip", "packages"} -> ~st.python_installed
      [] step = "checkpoint" -> ~st.checkpoint_exists

\* the tests of the sampled status that decide whether a step runs
Needed(step, st) ==
    CASE step = "python" -> ~st.python_installed
      [] step \in {"pip", "packages"} -> ~st.packages_installed
      [] step = "checkpoint" -> ~st.checkpoint_exists

\* progress_callback(message): the operator's callback keeps the last
\* message
Progress(msgs) ==
    /\ callbacks' = callbacks \o msgs
    /\ status_message' = msgs[Len(msgs)]

\* the except clause of install_environment_windows: the callback, then
\* raise
Fails(msgs) ==
    /\ Progress(msgs \o <<"Installation failed">>)
    /\ ipos' = "raised"

\* one step of the installation: announced and run, or announced as not
\* needed; a step that runs returns after its effect on disk or raises
RunStep(step, announce, skip, effect, next, nextIfSkipped) ==
    IF Needed(step, status)
    THEN /\ stepsRun' = Append(stepsRun, step)
         /\ \E raises \in BOOLEAN :
               IF raises
               THEN Fails(<<announce>>) /\ UNCHANGED disk
               ELSE /\ Progress(<<announce>>)
                    /\ disk' = effect
                    /\ ipos' = next
    ELSE /\ Progress(<<skip>>)
         /\ ipos' = nextIfSkipped
         /\ UNCHANGED <<stepsRun, disk>>

InstallFrame ==
    /\ UNCHANGED <<ipc, opReturn, reports, timer, tpc, is_running, success,
                   error_message, status, iret>>
    /\ UNCHANGED <<env_status_cache, env_status_cache_time,
                   env_fully_installed, now, call>>
    /\ UNCHANGED <<pipeVars, opVars, sharpVars, dlVars>>

\* Step 1: install_python_windows
InstallPython ==
    /\ tpc = "install"
    /\ ipos = "python"
    /\ RunStep("python", "Step 1/3: Installing Python...",
               "Step 1/3: Python already installed",
               [disk EXCEPT !.python_installed = TRUE], "pip", "pip")
    /\ InstallFrame

\* Step 2, first half: install_pip
InstallPip ==
    /\ tpc = "install"
    /\ ipos = "pip"
    /\ RunStep("pip", "Step 2/3: Installing pip...",
               "Step 2/3: Packages already installed",
               disk, "packages", "checkpoint")
    /\ InstallFrame

\* Step 2, second half: install_requirements
InstallPackages ==
    /\ tpc = "install"
    /\ ipos = "packages"
    /\ RunStep("packages", "Step 2/3: Installing Python packages...",
               "Step 2/3: Packages already installed",
               [disk EXCEPT !.packages_installed = disk.python_installed],
               "checkpoint", "checkpoint")
    /\ InstallFrame

\* Step 3: download_checkpoint
InstallCheckpoint ==
    /\ tpc = "install"
    /\ ipos = "checkpoint"
    /\ RunStep("checkpoint", "Step 3/3: Downloading checkpoint...",
               "Step 3/3: Checkpoint already exists",
               [disk EXCEPT !.checkpoint_exists = TRUE],
               "complete", "complete")
    /\ InstallFrame

\* progress_callback("Installation complete!"); return True
InstallComplete ==
    /\ tpc = "install"
    /\ ipos = "complete"
    /\ Progress(<<"Installation complete!">>)
    /\ iret' = "True"
    /\ ipos' = "returned"
    /\ UNCHANGED <<ipc, opReturn, reports, timer, tpc, is_running, success,
                   error_message, status, stepsRun>>
    /\ UNCHANGED <<pipeVars, opVars, sharpVars, cacheVars, dlVars>>

\* install_thread after the call: self._success = True, or the except
\* clause with self._error_message = str(e)
ThreadRecords ==
    /\ tpc = "install"
    /\ ipos \in {"returned", "raised"}
    /\ IF ipos = "returned"
       THEN success' = TRUE /\ UNCHANGED error_message
       ELSE success' = FALSE /\ error_message' = "str(e)"
    /\ tpc' = "finally"
    /\ UNCHANGED <<ipc, opReturn, reports, timer, is_running, status_message,
                   ipos, status, stepsRun, callbacks, iret>>
    /\ UNCHANGED <<pipeVars, opVars, sharpVars, cacheVars, dlVars>>

\* finally: self._is_running = False
ThreadFinally ==
    /\ tpc = "finally"
    /\ is_running' = FALSE
    /\ tpc' = "done"
    /\ UNCHANGED <<ipc, opReturn, reports, timer, success, error_message,
                   status_message, ipos, status, stepsRun, callbacks, iret>>
    /\ UNCHANGED <<pipeVars, opVars, sharpVars, cacheVars, dlVars>>

InstallNext ==
    \/ Execute
    \/ Modal
    \/ ThreadBegins
    \/ InstallSample
    \/ InstallPython
    \/ InstallPip
    \/ InstallPackages
    \/ InstallCheckpoint
    \/ InstallComplete
    \/ ThreadRecords
    \/ ThreadFinally
    \/ GetCachedEnvironmentStatus

SpecInstall == InstallInit /\ [][InstallNext]_vars

\* the steps the sampled status calls for, in the order of the function
Expected(st) ==
    SelectSeq(<<"python", "pip", "packages", "checkpoint">>,
              LAMBDA x : CASE x = "python" -> ~st.python_installed
                           [] x \in {"pip", "packages"} -> ~st.packages_installed
                           [] x = "checkpoint" -> ~st.checkpoint_exists)

IsPrefix(a, b) == Len(a) <= Len(b) /\ a = SubSeq(b, 1, Len(a))

Last(q) == q[Len(q)]

\* C24: the first get_cached_environment_status call on an invalidated
\* cache checks the environment and returns what the check found; and
\* whenever an installation finishes successfully the Install Environment
\* operator calls invalidate_env_cache and then reports FINISHED.
C24_InvalidateForcesRecheck ==
    /\ []((call.op = "get" /\ ~call.hadCache) =>
             /\ call.checked
             /\ ~call.raised => call.ret = env_status_cache)
    /\ [][(ipc = "modal" /\ opReturn' = "FINISHED") =>
             /\ call'.op = "invalidate"
             /\ ~env_status_cache'.set
             /\ ~env_fully_installed']_vars
    /\ []((tpc = "done" /\ success /\ ipc = "ended") =>
             opReturn = "FINISHED")

\* C25: install_environment_windows starts its steps in the order Python,
\* pip, packages, checkpoint; the steps started are those the status sampled
\* at the start calls for, up to the first one that raises; it returns True
\* and says 'Installation complete!' only if none raised; after a raise the
\* last message is 'Installation failed' and the thread records the error.
C25_InstallStepOrder ==
    /\ ~status.set => stepsRun = <<>> /\ callbacks = <<>>
    /\ status.set => IsPrefix(stepsRun, Expected(status))
    /\ ipos \in {"complete", "returned"} => stepsRun = Expected(status)
    /\ ipos = "checkpoint" =>
          stepsRun = SelectSeq(Expected(status), LAMBDA x : x # "checkpoint")
    /\ iret = "True" <=> ipos = "returned"
    /\ (\E i \in 1..Len(callbacks) : callbacks[i] = "Installation complete!")
          <=> ipos = "returned"
    /\ ipos = "returned" =>
          /\ Last(callbacks) = "Installation complete!"
          /\ \A i \in 1..Len(callbacks) : callbacks[i] # "Installation failed"
    /\ ipos = "raised" =>
          /\ stepsRun # <<>>
          /\ Last(callbacks) = "Installation failed"
          /\ status_message = "Installation failed"
          /\ iret = ""
    /\ (ipos = "raised" /\ tpc \in {"finally", "done"}) =>
          ~success /\ error_message # ""
    /\ success => ipos = "returned"

\* the packages step raised after Python and pip were installed; the
\* checkpoint, also absent, was not started
C25_Witness ==
    /\ ipos = "raised"
    /\ status = Status(FALSE, FALSE, FALSE)
    /\ stepsRun = <<"python", "pip", "packages">>
    /\ Last(callbacks) = "Installation failed"
    /\ ~disk.checkpoint_exists
    /\ tpc = "done"

\* C26: in every interleaving of timer events and installation thread the
\* operator ends only after the thread has finished; it never reports
\* 'Unknown error' while install_environment_windows is running, and it
\* reports FINISHED only after a successful installation.
C26_OperatorEndsAfterThread ==
    (ipc = "ended" /\ tpc # "none") =>
        /\ tpc = "done"
        /\ ~timer
        /\ opReturn = "FINISHED" => success /\ iret = "True"
        /\ opReturn = "CANCELLED" => ipos = "raised"

-----------------------------------------------------------------------------
(* download_file of env_installer.py: the requests path and the urllib
   fallback. The body arrives in chunks; a failure is an exception of class
   Exception raised while connecting or while a chunk is read. *)

MaxChunks == 4

DownloadInit ==
    /\ PipeIdle
    /\ OperatorIdle
    /\ SharpIdle
    /\ CacheIdle
    /\ InstallIdle
    /\ dpc = "start"
    /\ requestsOk \in BOOLEAN
    /\ dest \in {NoDest} \cup {[exists |-> TRUE, chunks |-> k] : k \in 0..MaxChunks}
    /\ remaining \in 0..MaxChunks
    /\ dret = ""
    /\ draised = ""

DownloadFrame == UNCHANGED <<pipeVars, opVars, sharpVars, cacheVars, installVars>>

\* a handler that re-raises and leaves the file
Handler_keepFile(e) ==
    /\ dest' = dest
    /\ draised' = e
    /\ dpc' = "done"
    /\ UNCHANGED <<requestsOk, remaining, dret>>

\* except Exception as e: if destination.exists(): destination.unlink();
\* raise (in the fallback: the same three lines)
Handler(e) ==
    /\ dest' = NoDest
    /\ draised' = e
    /\ dpc' = "done"
    /\ UNCHANGED <<requestsOk, remaining, dret>>

\* destination.parent.mkdir and 'import requests': ImportError leads to the
\* urllib fallback
DownloadStart ==
    /\ dpc = "start"
    /\ dpc' = IF requestsOk THEN "connect" ELSE "urlretrieve"
    /\ UNCHANGED <<requestsOk, dest, remaining, dret, draised>>
    /\ DownloadFrame

\* requests.get and raise_for_status, then open(destination, 'wb'); in the
\* fallback the opening of the URL and of the file by urlretrieve
Connect ==
    /\ dpc \in {"connect", "urlretrieve"}
    /\ \E outcome \in {"ok", "ConnectionError", "HTTPError"} :
          IF outcome = "ok"
          THEN /\ dest' = [exists |-> TRUE, chunks |-> 0]
               /\ dpc' = "stream"
               /\ UNCHANGED <<requestsOk, remaining, dret, draised>>
          ELSE Handler(outcome)
    /\ DownloadFrame

\* one chunk is read and written, or the read fails
WriteChunk ==
    /\ dpc = "stream"
    /\ remaining > 0
    /\ \E fails \in BOOLEAN :
          IF fails
          THEN Handler(IF requestsOk THEN "ChunkedEncodingError"
                       ELSE "ContentTooShortError")
          ELSE /\ dest' = [dest EXCEPT !.chunks = @ + 1]
               /\ remaining' = remaining - 1
               /\ UNCHANGED <<dpc, requestsOk, dret, draised>>
    /\ DownloadFrame

\* the body is complete: return True
DownloadReturns ==
    /\ dpc = "stream"
    /\ remaining = 0
    /\ dret' = "True"
    /\ dpc' = "done"
    /\ UNCHANGED <<requestsOk, dest, remaining, draised>>
    /\ DownloadFrame

DownloadNext == DownloadStart \/ Connect \/ WriteChunk \/ DownloadReturns

SpecDownload == DownloadInit /\ [][DownloadNext]_vars

\* C28: when download_file has raised, no file exists at the destination,
\* on both paths and wherever the failure came; when it has returned True
\* the file exists.
C28_NoPartialDownload ==
    /\ draised # "" => dpc = "done" /\ ~dest.exists /\ dret = ""
    /\ dret = "True" => dpc = "done" /\ dest.exists /\ draised = "" /\ remaining = 0
    /\ dpc = "done" => (draised # "") # (dret = "True")

\* the urllib fallback has raised while it read the last chunk, with the
\* file already open
C28_Witness ==
    /\ ~requestsOk
    /\ dpc = "done"
    /\ draised = "ContentTooShortError"
    /\ remaining = 1
    /\ ~dest.exists

-----------------------------------------------------------------------------
(* The alpha of the two paths *)

\* a value in [0,1], in millionths, on the scale of 255, cast as the
\* encoder casts
Quantize255(a) == astype_uint8(a * 255, 1000000)

\* C29: for every point the alpha byte save_as_splat writes for an opacity
\* is the 255-scale quantization of the preview alpha the operators derive
\* from the same opacity.
C29_AlphaPathsAgree ==
    \A i \in 1..PointsColored :
        AlphaByte(points[i]["opacity"]) = Quantize255(ColorAt(i)[4])

====
